---- MODULE Spec2Model ----
(***************************************************************************)
(* Model of the parameter editor of src/index.tsx (ParamEditorInner): the  *)
(* reducer state `values`, the `errors` state, the props the host passes   *)
(* and the imperative handle built by useImperativeHandle, the renderer    *)
(* dispatch of its render and the theme of ThemeProvider.                  *)
(*                                                                         *)
(* Every action is one event handler followed by the render and commit it  *)
(* triggers (React processes an event, re-renders and runs the layout      *)
(* effects before the next event is handled).                              *)
(***************************************************************************)
EXTENDS Integers, Sequences, FiniteSets

\* ---- bounds -------------------------------------------------------------
\* longest paramValues of the Model a session is constructed with, and of a
\* Model the host passes to the running session
MaxModelLen == 2
MaxNewModelLen == 1

ParamIds == {1, 2}
\* texts the host puts in a Model, and texts a control passes to onChange
ModelTexts == {"", "a"}
InputTexts == {"", "a", "b"}

\* ---- data ---------------------------------------------------------------
\* type Color (lines 40-44)
Red == [id |-> 1, name |-> "red", hex |-> "#f00"]
Blue == [id |-> 2, name |-> "blue", hex |-> "#00f"]

\* A colors array is an object: `ref` is its identity (what Object.is
\* compares in a dependency list), `items` its content.
ColorArrays ==
  { [ref |-> 1, items |-> <<Red, Blue>>],
    [ref |-> 2, items |-> <<Blue>>] }

\* type ParamValue (lines 35-38)
ParamValue == [paramId : ParamIds, value : ModelTexts]

SeqsUpTo(S, n) == UNION { [1..k -> S] : k \in 0..n }

\* type Model (lines 46-49); paramValues may repeat an id or name an id the
\* schema does not have
Models ==
  [paramValues : SeqsUpTo(ParamValue, MaxModelLen), colors : ColorArrays]

NewModels ==
  [paramValues : SeqsUpTo(ParamValue, MaxNewModelLen), colors : ColorArrays]

\* the type tags of Param (lines 21-33)
Types == {"string", "number", "select"}

\* type Param (lines 16-33) with type tags in T, ids unique within a schema
ParamsOf(T) ==
  { ps \in SeqsUpTo([id : ParamIds, type : T], Cardinality(ParamIds)) :
      /\ Len(ps) >= 1
      /\ \A i, j \in 1..Len(ps) : ps[i].id = ps[j].id => i = j }

\* the schemas of the sessions of Spec (string parameters), and the schemas
\* over every type tag
Schemas == ParamsOf({"string"})
TypedSchemas == ParamsOf(Types)

\* Props.renderers (line 54): <<>> when the host passes none, else <<r>>
\* with r mapping some type tags to the host's component
RendererProps ==
  {<<>>} \cup { <<[t \in T |-> "Custom"]>> : T \in SUBSET Types }

\* the Models of the sessions that draw type tags and renderers
RenderModels ==
  { m \in NewModels : m.colors.ref = 1 /\ Len(m.paramValues) <= 1 }

VARIABLES
  params,        \* props.params
  model,         \* props.model, as of the last render
  values,        \* useReducer state (EditState)
  errors,        \* useState errors (ErrorMap): function from ids to messages
  handle,        \* what the closures of the current handle captured
  sessionStart,  \* history: the EditState the session was constructed with
  ret,           \* the last operation, its arguments and what it returned
  renderers,     \* props.renderers
  theme,         \* ThemeProvider's state
  lastValidate   \* history: <<result and ErrorMap of the last Validate>> while
                 \* no Change or Reset has followed it, else <<>>

vars ==
  <<params, model, values, errors, handle, sessionStart, ret, renderers, theme,
    lastValidate>>

\* ---- pure functions -----------------------------------------------------
\* Array.prototype.find: the first entry with the id, as <<entry>>, else <<>>
RECURSIVE find(_, _)
find(pvs, id) ==
  IF pvs = <<>> THEN <<>>
  ELSE IF Head(pvs).paramId = id THEN <<Head(pvs)>>
  ELSE find(Tail(pvs), id)

\* initialValues reading the Model by position instead of by id
initialValuesByPosition(ps, m) ==
  [i \in 1..Len(ps) |->
     [paramId |-> ps[i].id,
      value |-> IF i <= Len(m.paramValues) THEN m.paramValues[i].value ELSE ""]]

\* EditState seeded with the Model's own paramValues
initialValuesFromModel(ps, m) == m.paramValues

initialValues(ps, m) ==
  [i \in 1..Len(ps) |->
     LET found == find(m.paramValues, ps[i].id)
     IN  [paramId |-> ps[i].id,
          value |-> IF found # <<>> THEN found[1].value ELSE ""]]

\* reducer whose CHANGE writes the value into every entry
reducerChangeAll(state, action) ==
  IF action.type = "CHANGE"
  THEN [i \in 1..Len(state) |-> [state[i] EXCEPT !.value = action.value]]
  ELSE action.initial

\* reducer whose RESET keeps the state
reducerResetKeeps(state, action) ==
  IF action.type = "CHANGE"
  THEN [i \in 1..Len(state) |->
          IF state[i].paramId = action.paramId
          THEN [state[i] EXCEPT !.value = action.value]
          ELSE state[i]]
  ELSE state

\* reducer whose CHANGE adds an entry for an id the state does not have
reducerUpsert(state, action) ==
  IF action.type = "CHANGE"
  THEN IF \E i \in 1..Len(state) : state[i].paramId = action.paramId
       THEN [i \in 1..Len(state) |->
               IF state[i].paramId = action.paramId
               THEN [state[i] EXCEPT !.value = action.value]
               ELSE state[i]]
       ELSE Append(state, [paramId |-> action.paramId, value |-> action.value])
  ELSE action.initial

reducer(state, action) ==
  IF action.type = "CHANGE"
  THEN [i \in 1..Len(state) |->
          IF state[i].paramId = action.paramId
          THEN [state[i] EXCEPT !.value = action.value]
          ELSE state[i]]
  ELSE action.initial

\* validate reporting only the first empty value
validateErrsFirstOnly(vals) ==
  LET empty == { j \in 1..Len(vals) : vals[j].value = "" }
  IN  [id \in { vals[i].paramId :
                  i \in { j \in empty : \A k \in empty : j <= k } }
         |-> "Required field"]

\* validate keying errs by the forEach index instead of pv.paramId
validateErrsByIndex(vals) ==
  [k \in { j - 1 : j \in { i \in 1..Len(vals) : vals[i].value = "" } }
     |-> "Required field"]

\* validate's loop (lines 227-230): the errs object
validateErrs(vals) ==
  [id \in { vals[i].paramId : i \in { j \in 1..Len(vals) : vals[j].value = "" } }
     |-> "Required field"]

\* an updater that drops every entry
deleteKeyAll(e, paramId) == [k \in {} |-> e[k]]

\* an updater that copies the map and deletes nothing
deleteKeyNone(e, paramId) == e

\* handleChange's setErrors updater (lines 237-241)
deleteKey(e, paramId) == [k \in (DOMAIN e) \ {paramId} |-> e[k]]

\* the handle with deps [values]
useImperativeHandleValuesDep(newValues, valuesChanged, newModel) ==
  IF valuesChanged
  THEN [values |-> newValues,
        colors |-> newModel.colors,
        initial |-> initialValues(params, newModel)]
  ELSE handle

\* the handle with deps [model.colors]
useImperativeHandleColorsDep(newValues, valuesChanged, newModel) ==
  IF newModel.colors.ref # model.colors.ref
  THEN [values |-> newValues,
        colors |-> newModel.colors,
        initial |-> initialValues(params, newModel)]
  ELSE handle

\* useImperativeHandle with deps [values, model.colors]: the handle is
\* rebuilt from this render's values, model.colors and initialValues when a
\* dependency changed identity, and kept otherwise.
useImperativeHandle(newValues, valuesChanged, newModel) ==
  IF valuesChanged \/ newModel.colors.ref # model.colors.ref
  THEN [values |-> newValues,
        colors |-> newModel.colors,
        initial |-> initialValues(params, newModel)]
  ELSE handle

\* defaultRenderers (lines 192-196), each component by its name
defaultRenderers ==
  [string |-> "StringParamEditor",
   number |-> "NumberParamEditor",
   select |-> "SelectParamEditor"]

\* object spread { ...a, ...b }: the keys of a, then those of b written over
spread(a, b) ==
  [k \in (DOMAIN a) \cup (DOMAIN b) |-> IF k \in DOMAIN b THEN b[k] ELSE a[k]]

\* the merge with the spreads in the other order
useRendersDefaultsWin ==
  IF renderers # <<>> THEN spread(renderers[1], defaultRenderers)
  ELSE defaultRenderers

\* useRenders (lines 244-246)
useRenders ==
  IF renderers # <<>> THEN spread(defaultRenderers, renderers[1])
  ELSE defaultRenderers

\* a render that looks the error up by the position of the parameter
renderErrorByIndex ==
  [i \in 1..Len(params) |->
     LET param == params[i]
         current == find(values, param.id)
     IN  [Renderer |-> useRenders[param.type],
          key |-> param.id,
          param |-> param,
          value |-> IF current # <<>> /\ current[1].value # ""
                    THEN current[1].value ELSE "",
          error |-> IF i \in DOMAIN errors THEN <<errors[i]>> ELSE <<>>]]

\* the controls of the render (lines 253-265), one element per params.map
\* call: the component, its key and its props; error is <<>> for undefined
render ==
  [i \in 1..Len(params) |->
     LET param == params[i]
         current == find(values, param.id)
     IN  [Renderer |-> useRenders[param.type],
          key |-> param.id,
          param |-> param,
          value |-> IF current # <<>> /\ current[1].value # ""
                    THEN current[1].value ELSE "",
          error |-> IF param.id \in DOMAIN errors
                    THEN <<errors[param.id]>> ELSE <<>>]]

\* handle.getModel()
getModel == [paramValues |-> handle.values, colors |-> handle.colors]

NoModel == [paramValues |-> <<>>, colors |-> [ref |-> 0, items |-> <<>>]]

\* The record of an operation: its name and arguments, what it returned
\* (ok: validate's result, out: getModel's result), what it wrote to the
\* console, whether it left EditState and the ErrorMap different from
\* what they were, and whether it is a Validate repeated with no Change or
\* Reset since the one before.
Ret(op, newValues, newErrors) ==
  [op |-> op, id |-> 0, value |-> "", ok |-> TRUE, out |-> NoModel,
   logged |-> <<>>,
   repeated |-> op = "validate" /\ lastValidate # <<>>,
   valuesChanged |-> newValues # values,
   errorsChanged |-> newErrors # errors]

\* ---- state machine ------------------------------------------------------
\* the state after ThemeProvider and ParamEditor mounted with these props
Mount(ps, m, rs) ==
  /\ params = ps
  /\ model = m
  /\ renderers = rs
  /\ values = initialValues(ps, m)
  /\ errors = <<>>
  /\ handle = [values |-> initialValues(ps, m), colors |-> m.colors,
               initial |-> initialValues(ps, m)]
  /\ sessionStart = initialValues(ps, m)
  /\ theme = "light"
  /\ lastValidate = <<>>
  /\ ret = [op |-> "mount", id |-> 0, value |-> "", ok |-> TRUE,
            out |-> NoModel, logged |-> <<>>, repeated |-> FALSE,
            valuesChanged |-> FALSE, errorsChanged |-> FALSE]

Init == \E ps \in Schemas, m \in Models : Mount(ps, m, <<>>)

\* a control's onChange: handleChange(paramId, value)
Change(paramId, value) ==
  /\ values' = reducer(values, [type |-> "CHANGE", paramId |-> paramId,
                                value |-> value])
  /\ errors' = deleteKey(errors, paramId)
  /\ handle' = useImperativeHandle(values', TRUE, model)
  /\ ret' = [Ret("change", values', errors') EXCEPT !.id = paramId, !.value = value]
  /\ lastValidate' = <<>>
  /\ UNCHANGED <<params, model, sessionStart, renderers, theme>>

\* handle.reset(): the closure of the handle, with the initialValues it captured
ResetFacade ==
  /\ values' = reducer(values, [type |-> "RESET", initial |-> handle.initial])
  /\ handle' = useImperativeHandle(values', TRUE, model)
  /\ ret' = Ret("reset", values', errors)
  /\ lastValidate' = <<>>
  /\ UNCHANGED <<params, model, errors, sessionStart, renderers, theme>>

\* a Reset button that also empties the ErrorMap
ResetButtonClearsErrors ==
  /\ values' = reducer(values, [type |-> "RESET",
                                initial |-> initialValues(params, model)])
  /\ errors' = <<>>
  /\ handle' = useImperativeHandle(values', TRUE, model)
  /\ ret' = Ret("resetButton", values', errors')
  /\ lastValidate' = <<>>
  /\ UNCHANGED <<params, model, sessionStart, renderers, theme>>

\* the Reset button: the closure of the current render
ResetButton ==
  /\ values' = reducer(values, [type |-> "RESET",
                                initial |-> initialValues(params, model)])
  /\ handle' = useImperativeHandle(values', TRUE, model)
  /\ ret' = Ret("resetButton", values', errors)
  /\ lastValidate' = <<>>
  /\ UNCHANGED <<params, model, errors, sessionStart, renderers, theme>>

\* a button that logs whatever validate() returned
ValidateLogsAlways ==
  LET errs == validateErrs(values)
      ok == Cardinality(DOMAIN errs) = 0
  IN  /\ errors' = errs
      /\ handle' = useImperativeHandle(values, FALSE, model)
      /\ ret' = [Ret("validate", values, errs) EXCEPT !.ok = ok,
                   !.logged = <<values>>]
      /\ lastValidate' = <<[ok |-> ok, errors |-> errs]>>
      /\ UNCHANGED <<params, model, values, sessionStart, renderers, theme>>

\* a validate() that skips the parameters the ErrorMap already flags
ValidateSkipsFlagged ==
  LET all == validateErrs(values)
      errs == [id \in (DOMAIN all) \ (DOMAIN errors) |-> all[id]]
      ok == Cardinality(DOMAIN errs) = 0
  IN  /\ errors' = errs
      /\ handle' = useImperativeHandle(values, FALSE, model)
      /\ ret' = [Ret("validate", values, errs) EXCEPT !.ok = ok,
                   !.logged = IF ok THEN <<values>> ELSE <<>>]
      /\ lastValidate' = <<[ok |-> ok, errors |-> errs]>>
      /\ UNCHANGED <<params, model, values, sessionStart, renderers, theme>>

\* the Validate & Log button
Validate ==
  LET errs == validateErrs(values)
      ok == Cardinality(DOMAIN errs) = 0
  IN  /\ errors' = errs
      /\ handle' = useImperativeHandle(values, FALSE, model)
      /\ ret' = [Ret("validate", values, errs) EXCEPT !.ok = ok,
                   !.logged = IF ok THEN <<values>> ELSE <<>>]
      /\ lastValidate' = <<[ok |-> ok, errors |-> errs]>>
      /\ UNCHANGED <<params, model, values, sessionStart, renderers, theme>>

\* a getModel() that validates before it returns
GetModelValidates ==
  /\ errors' = validateErrs(values)
  /\ ret' = [Ret("getModel", values, errors') EXCEPT !.out = getModel]
  /\ UNCHANGED lastValidate
  /\ UNCHANGED <<params, model, values, handle, sessionStart, renderers,
                 theme>>

\* the host calls handle.getModel()
GetModel ==
  /\ ret' = [Ret("getModel", values, errors) EXCEPT !.out = getModel]
  /\ UNCHANGED lastValidate
  /\ UNCHANGED <<params, model, values, errors, handle, sessionStart,
               renderers, theme>>

\* a render that seeds EditState again from the Model it is given
RerenderReseeds(newModel) ==
  /\ newModel # model
  /\ model' = newModel
  /\ values' = initialValues(params, newModel)
  /\ handle' = useImperativeHandle(values', TRUE, newModel)
  /\ ret' = Ret("rerender", values', errors)
  /\ lastValidate' = <<>>
  /\ UNCHANGED <<params, errors, sessionStart, renderers, theme>>

\* the host renders the running session with a different Model
Rerender(newModel) ==
  /\ newModel # model
  /\ model' = newModel
  /\ handle' = useImperativeHandle(values, FALSE, newModel)
  /\ ret' = Ret("rerender", values, errors)
  /\ UNCHANGED lastValidate
  /\ UNCHANGED <<params, values, errors, sessionStart, renderers, theme>>

\* a toggle that always sets the dark theme
ToggleSetsDark ==
  /\ theme' = "dark"
  /\ ret' = Ret("toggle", values, errors)
  /\ UNCHANGED lastValidate
  /\ UNCHANGED <<params, model, values, errors, handle, sessionStart,
                 renderers>>

\* ThemeProvider's toggle (lines 83-86)
Toggle ==
  /\ theme' = IF theme = "light" THEN "dark" ELSE "light"
  /\ ret' = Ret("toggle", values, errors)
  /\ UNCHANGED lastValidate
  /\ UNCHANGED <<params, model, values, errors, handle, sessionStart,
                 renderers>>

Next ==
  \/ \E paramId \in ParamIds, value \in InputTexts : Change(paramId, value)
  \/ ResetFacade
  \/ ResetButton
  \/ Validate
  \/ GetModel
  \/ \E newModel \in NewModels : Rerender(newModel)

Spec == Init /\ [][Next]_vars

\* the session of a host that never passes another Model
NextFixedModel ==
  \/ \E paramId \in ParamIds, value \in InputTexts : Change(paramId, value)
  \/ ResetFacade
  \/ ResetButton
  \/ Validate
  \/ GetModel

SpecFixedModel == Init /\ [][NextFixedModel]_vars

\* the session inside a ThemeProvider whose toggle is used
NextTheme ==
  \/ \E paramId \in ParamIds, value \in InputTexts : Change(paramId, value)
  \/ ResetFacade
  \/ ResetButton
  \/ Validate
  \/ GetModel
  \/ Toggle

SpecTheme == Init /\ [][NextTheme]_vars

\* sessions over every type tag and every renderers prop
InitRender ==
  \E ps \in TypedSchemas, m \in RenderModels, rs \in RendererProps :
    Mount(ps, m, rs)

SpecRender == InitRender /\ [][NextFixedModel]_vars

\* ---- properties ----------------------------------------------------------
Min(S) == CHOOSE x \in S : \A y \in S : x <= y

\* indices of the entries of a Model's paramValues with the id
Hits(m, id) == { k \in 1..Len(m.paramValues) : m.paramValues[k].paramId = id }

ResetOps == {"reset", "resetButton"}

\* C1: at session start EditState has exactly one entry per parameter of the
\* schema, in schema order; its value is the value the initial Model holds
\* for that id (the first such entry when the Model repeats the id) and the
\* empty string when the Model has no entry with that id.
C1_StartingEditState ==
  ret.op = "mount" =>
    /\ Len(values) = Len(params)
    /\ \A i \in 1..Len(params) :
         /\ values[i].paramId = params[i].id
         /\ values[i].value =
              IF Hits(model, params[i].id) = {} THEN ""
              ELSE model.paramValues[Min(Hits(model, params[i].id))].value

\* a session constructed with a two-parameter schema whose first parameter
\* the Model lacks and whose second parameter the Model gives the text "a"
C1_Witness ==
  /\ ret.op = "mount"
  /\ Len(params) = 2
  /\ Hits(model, params[1].id) = {}
  /\ Hits(model, params[2].id) # {}
  /\ values[2].value = "a"

\* C2: a Change(id, v) for an id present in EditState makes
\* getModel().paramValues hold v for id and the value it held before for
\* every other id, with as many entries in the same order as before.
C2_ChangeShowsInGetModel ==
  [][ (ret'.op = "change" /\ \E i \in 1..Len(values) : values[i].paramId = ret'.id)
        => LET before == getModel.paramValues
               after == getModel'.paramValues
           IN  /\ Len(after) = Len(before)
               /\ \A i \in 1..Len(before) :
                    /\ after[i].paramId = before[i].paramId
                    /\ after[i].value =
                         IF before[i].paramId = ret'.id THEN ret'.value
                         ELSE before[i].value ]_vars

\* a Change wrote "b" for one parameter while the other one holds "a"
C2_Witness ==
  /\ ret.op = "change"
  /\ ret.value = "b"
  /\ ret.valuesChanged
  /\ \E i, j \in 1..Len(values) :
       /\ values[i].paramId = ret.id
       /\ getModel.paramValues[i].value = "b"
       /\ values[j].paramId # ret.id
       /\ getModel.paramValues[j].value = "a"

\* C3: with the session's Model as constructed, a Reset after any sequence
\* of Change, Validate (and Reset) leaves EditState equal to the EditState
\* the session started with.
C3_ResetRestoresStart ==
  ret.op \in ResetOps => values = sessionStart

\* a Reset that discarded edits while the ErrorMap of a Validate is shown
C3_Witness ==
  /\ ret.op \in ResetOps
  /\ ret.valuesChanged
  /\ errors # <<>>
  /\ values = sessionStart

\* C4: a Reset, through the facade or the Reset control, restores the
\* EditState captured at session construction, also after the host has
\* passed a different Model to the running session.
C4_ResetRestoresConstruction ==
  [][ (ret'.op = "reset" \/ ret'.op = "resetButton")
        => values' = sessionStart ]_vars

\* ids of the entries of an EditState whose value is the empty string
EmptyIds(vals) ==
  { id \in ParamIds : \E i \in 1..Len(vals) :
                         vals[i].paramId = id /\ vals[i].value = "" }

\* C5: Validate returns false iff some entry of the current EditState has
\* the empty string as value, and the ErrorMap it stores has exactly the ids
\* with an empty value as keys, each mapped to "Required field".
C5_ValidateFlagsEmpty ==
  ret.op = "validate" =>
    /\ (ret.ok = FALSE) <=> (\E i \in 1..Len(values) : values[i].value = "")
    /\ DOMAIN errors = EmptyIds(values)
    /\ \A id \in DOMAIN errors : errors[id] = "Required field"

\* a failed Validate that replaced the ErrorMap, with one value empty and
\* another one filled
C5_Witness ==
  /\ ret.op = "validate"
  /\ ~ret.ok
  /\ ret.errorsChanged
  /\ Cardinality(DOMAIN errors) = 1
  /\ \E i \in 1..Len(values) : values[i].value # ""

\* C6: a Change(id, v) removes the ErrorMap entry of id, whatever v is, and
\* leaves the entries of all other ids as they were.
C6_ChangeClearsOwnError ==
  [][ ret'.op = "change"
        => /\ DOMAIN errors' = (DOMAIN errors) \ {ret'.id}
           /\ \A id \in DOMAIN errors' : errors'[id] = errors[id] ]_vars

\* a Change to the empty string removed its parameter's entry and kept the
\* entry of another parameter
C6_Witness ==
  /\ ret.op = "change"
  /\ ret.value = ""
  /\ ret.errorsChanged
  /\ ret.id \notin DOMAIN errors
  /\ errors # <<>>

\* C7: whenever getModel() is called, the colors it returns are deep-equal
\* to the colors of the Model the host supplies.
C7_ColorsPassThrough ==
  ret.op = "getModel" => ret.out.colors.items = model.colors.items

\* a getModel() after edits, a Validate and a later Model
C7_Witness ==
  /\ ret.op = "getModel"
  /\ ret.out.colors.items = model.colors.items
  /\ values # sessionStart
  /\ errors # <<>>
  /\ initialValues(params, model) # sessionStart

\* C8: a render with a different Model leaves EditState as it is.
C8_NewModelKeepsEdits ==
  [][ ret'.op = "rerender" => values' = values ]_vars

\* after a render with a different Model, EditState holds edits that are
\* neither the session's starting values nor the new Model's
C8_Witness ==
  /\ ret.op = "rerender"
  /\ values # sessionStart
  /\ values # initialValues(params, model)

\* C9: in every state a getModel() call returns the current EditState as
\* paramValues and the current Model's colors.
C9_FacadeIsCurrent ==
  getModel = [paramValues |-> values, colors |-> model.colors]

\* a Change or Reset that changed EditState has been processed
C9_Witness ==
  /\ ret.op \in {"change", "reset", "resetButton"}
  /\ ret.valuesChanged
  /\ getModel.paramValues = values

\* C10: the ErrorMap starts empty, only a Validate adds an entry to it, and
\* a Change to p leaves no entry for p; so it is empty until the first
\* Validate, and an entry for p means a Validate came after the last Change
\* to p.
C10_ErrorsOnlyAfterValidate ==
  /\ errors = <<>>
  /\ [][ /\ \A p \in DOMAIN errors' :
              p \in DOMAIN errors \/ ret'.op = "validate"
         /\ ret'.op = "change" => ret'.id \notin DOMAIN errors' ]_vars

\* an entry of a Validate is still shown after a Change to another parameter
C10_Witness ==
  /\ ret.op = "change"
  /\ ~ret.errorsChanged
  /\ \E p \in DOMAIN errors : p # ret.id

\* the built-in strategy of a type tag
BuiltIn(t) ==
  CASE t = "string" -> "StringParamEditor"
    [] t = "number" -> "NumberParamEditor"
    [] t = "select" -> "SelectParamEditor"

\* C11: the render resolves the type tag of each parameter to the caller's
\* strategy when the renderers prop has that tag and to the built-in one
\* otherwise; with no renderers prop every baseline tag resolves to its
\* built-in.
C11_RendererDispatch ==
  /\ \A i \in 1..Len(params) :
       render[i].Renderer =
         IF renderers # <<>> /\ params[i].type \in DOMAIN renderers[1]
         THEN renderers[1][params[i].type]
         ELSE BuiltIn(params[i].type)
  /\ renderers = <<>> => \A t \in Types : useRenders[t] = BuiltIn(t)

\* an override for string only: the string parameter gets the override and
\* the number parameter its built-in
C11_Witness ==
  /\ renderers # <<>>
  /\ DOMAIN renderers[1] = {"string"}
  /\ \E i, j \in 1..Len(params) :
       /\ params[i].type = "string" /\ render[i].Renderer = "Custom"
       /\ params[j].type = "number"
       /\ render[j].Renderer = "NumberParamEditor"

\* C12: getModel() can be called in every state, whatever the values and
\* the ErrorMap are; it returns the current EditState as paramValues and
\* leaves EditState and the ErrorMap as they were.
C12_GetModelReadsOnly ==
  /\ [](ENABLED GetModel)
  /\ [][ ret'.op = "getModel"
          => /\ ret'.out.paramValues = values
             /\ values' = values
             /\ errors' = errors ]_vars

\* getModel() returned an EditState with an empty value that no Validate
\* has flagged, while the ErrorMap shows the entry of another parameter
C12_Witness ==
  /\ ret.op = "getModel"
  /\ ret.out.paramValues = values
  /\ errors # <<>>
  /\ \E i \in 1..Len(values) :
       values[i].value = "" /\ values[i].paramId \notin DOMAIN errors

\* C13: the Validate & Log button writes the current values to the console
\* exactly when no current value is empty; when some value is empty it
\* writes nothing and the ErrorMap is non-empty.
C13_LogOnlyWhenValid ==
  ret.op = "validate" =>
    IF \E i \in 1..Len(values) : values[i].value = ""
    THEN ret.logged = <<>> /\ errors # <<>>
    ELSE ret.logged = <<values>>

\* a successful Validate logged values that the user had edited
C13_Witness ==
  /\ ret.op = "validate"
  /\ ret.logged = <<values>>
  /\ values # sessionStart
  /\ \A i \in 1..Len(values) : values[i].value # ""

\* C14: a Validate never changes EditState, and a Validate that follows
\* another one with no Change or Reset between them returns the same result
\* and leaves the same ErrorMap.
C14_ValidateIdempotent ==
  [][ ret'.op = "validate"
        => /\ values' = values
           /\ lastValidate # <<>>
                => /\ ret'.ok = lastValidate[1].ok
                   /\ errors' = lastValidate[1].errors ]_vars

\* a failing Validate repeated with no Change or Reset since the one
\* before, on edited values
C14_Witness ==
  /\ ret.op = "validate"
  /\ ret.repeated
  /\ ~ret.ok
  /\ ~ret.errorsChanged
  /\ values # sessionStart

\* the paramIds of an array of ParamValue, in order
IdsOf(vals) == [i \in 1..Len(vals) |-> vals[i].paramId]

\* C15: a Change(paramId, v) whose paramId matches no entry of EditState can
\* always be made and changes nothing: EditState keeps its entries, values
\* and order, and the ErrorMap is as it was.
C15_UnknownIdIsNoOp ==
  /\ [](\A paramId \in ParamIds, v \in InputTexts : ENABLED Change(paramId, v))
  /\ [][ (ret'.op = "change"
            /\ \A i \in 1..Len(values) : values[i].paramId # ret'.id)
          => /\ values' = values
             /\ getModel'.paramValues = values
             /\ errors' = errors ]_vars

\* a Change of "b" for an id the schema does not have, made while the
\* ErrorMap shows an entry
C15_Witness ==
  /\ ret.op = "change"
  /\ ret.value = "b"
  /\ \A i \in 1..Len(values) : values[i].paramId # ret.id
  /\ ~ret.valuesChanged
  /\ ~ret.errorsChanged
  /\ errors # <<>>

\* C16: the render has exactly one control per parameter of the schema,
\* keyed by the parameter's id; the control of p shows the value EditState
\* holds for p and the error the ErrorMap holds for p, none when the
\* ErrorMap has no entry for p.
C16_OneControlPerParam ==
  /\ Len(render) = Len(params)
  /\ \A i \in 1..Len(params) :
       /\ render[i].key = params[i].id
       /\ render[i].param = params[i]
       /\ \A j \in 1..Len(render) : render[j].key = render[i].key => j = i
       /\ \E j \in 1..Len(values) :
            /\ values[j].paramId = params[i].id
            /\ values[j].value = render[i].value
       /\ \A j \in 1..Len(values) :
            values[j].paramId = params[i].id => values[j].value = render[i].value
       /\ render[i].error =
            IF params[i].id \in DOMAIN errors
            THEN <<errors[params[i].id]>> ELSE <<>>

\* two controls: the first shows an edited value and no error, the second
\* an empty value and its error
C16_Witness ==
  /\ Len(render) = 2
  /\ render[1].value = "b" /\ render[1].error = <<>>
  /\ render[2].value = "" /\ render[2].error = <<"Required field">>
  /\ ret.op = "rerender"

\* C17: a Reset, through the facade or the Reset control, leaves the
\* ErrorMap exactly as it was.
C17_ResetKeepsErrors ==
  [][ ret'.op \in ResetOps => errors' = errors ]_vars

\* the Reset control put back a non-empty value whose parameter the
\* ErrorMap still flags
C17_Witness ==
  /\ ret.op = "resetButton"
  /\ ret.valuesChanged
  /\ \E i \in 1..Len(values) :
       values[i].paramId \in DOMAIN errors /\ values[i].value # ""

\* C18: with the schema and Model the session was constructed with, the
\* paramIds of EditState and of getModel().paramValues are, in every state,
\* the ids of the schema in schema order.
C18_IdsFollowSchema ==
  /\ IdsOf(values) = [i \in 1..Len(params) |-> params[i].id]
  /\ IdsOf(getModel.paramValues) = [i \in 1..Len(params) |-> params[i].id]

\* the Model has an entry for an id the schema lacks, and the user has
\* edited, validated and reset
C18_Witness ==
  /\ \E k \in 1..Len(model.paramValues) :
       \A i \in 1..Len(params) : params[i].id # model.paramValues[k].paramId
  /\ ret.op \in ResetOps
  /\ ret.valuesChanged
  /\ errors # <<>>
  /\ IdsOf(getModel.paramValues) = [i \in 1..Len(params) |-> params[i].id]

\* C19: every key of the ErrorMap is the paramId of an entry of EditState
\* and every message is "Required field".
C19_ErrorKeysAreParamIds ==
  \A k \in DOMAIN errors :
    /\ \E i \in 1..Len(values) : values[i].paramId = k
    /\ errors[k] = "Required field"

\* a Validate flagged both parameters of a two-parameter schema
C19_Witness ==
  /\ ret.op = "validate"
  /\ Cardinality(DOMAIN errors) = 2
  /\ DOMAIN errors = { values[i].paramId : i \in 1..Len(values) }

\* C20: the theme starts as light and is always light or dark; a toggle
\* switches it to the other variant (so two toggles in a row restore it),
\* and no other operation changes it.
C20_ThemeTogglesOnly ==
  /\ theme = "light"
  /\ [](theme \in {"light", "dark"})
  /\ [][ /\ ret'.op = "toggle" => theme' # theme
         /\ ret'.op # "toggle" => theme' = theme ]_vars

\* a toggle brought the theme back to light while the session holds edits
\* and errors
C20_Witness ==
  /\ ret.op = "toggle"
  /\ theme = "light"
  /\ values # sessionStart
  /\ errors # <<>>

TypeOK ==
  /\ params \in TypedSchemas
  /\ renderers \in RendererProps
  /\ theme \in {"light", "dark"}
  /\ model \in Models \cup NewModels
  /\ Len(values) = Len(params)
====
